---- MODULE Spec2Model ----
(***************************************************************************)
(* Event ingestion and dispatch pipeline of vk_teams_async_bot:            *)
(* Bot.start_polling / Bot.get_events (bot.py), the retry wrapper around   *)
(* VKTeamsSession.get_request (helpers.py, client_session.py), Event       *)
(* construction (events.py) and Dispatcher.processed_event (dispatcher.py, *)
(* handler.py); the retry wrapper on its own, with the attempt count as an *)
(* input (helpers.py); the per-user state store with its expiry sweep      *)
(* (state.py).  Each part has its own specification over the module's      *)
(* variables: Spec and FairSpec (pipeline), RetrySpec, StoreSpec (calls of *)
(* the store's methods), SweepSpec (the store with its sweep running),     *)
(* TwiceSpec (set called twice in a row), RaceSpec (handlers that read and *)
(* write back a user's data), SingletonSpec (construction of the store),   *)
(* DecodeSpec (Event.__init__), ParamSpec (the parameters of a request),   *)
(* HandleSpec (BaseHandler.handle with its providers) and CheckSpec (the   *)
(* handler scan over command and message handlers, handler.py, filter.py). *)
(* A specification leaves the variables of the other parts at their        *)
(* initial values.                                                         *)
(*                                                                         *)
(* Scheduling is asyncio's: one thread, the polling coroutine and the      *)
(* dispatch tasks interleave only at awaits.  The polling coroutine is     *)
(* suspended exactly while pollPc = "await" (inside get_request), so task  *)
(* steps are enabled only then; tasks created by create_task start in      *)
(* creation order before the awaited response is processed.  Between the   *)
(* response and the next request start_polling does not await: get_events' *)
(* cursor update and the for loop over the batch are one step.             *)
(***************************************************************************)
EXTENDS Integers, Sequences, FiniteSets, TLC

\* ---------------------------------------------------------------- bounds
MaxEventId == 3
MaxBatch == 2
MaxTasks == 2
MaxRetries == 3
MaxClockTicks == 3
MaxCalls == 3
MaxParams == 2
MaxHandlers == 2
MaxBots == 3
MaxRegistered == 2

\* ------------------------------------------------------ program constants
\* start_polling(count_request_retries: int = 2)
CountRequestRetries == 2

\* set_new_expire_session(self, user, expire_session: Seconds = 15)
UpdateExpireSession == 15


\* EventType values the model distinguishes.  The wire also carries "bogus",
\* a type string that is no member of the enumeration, so that
\* EventType(event["type"]) raises.
EventTypes == {"newMessage", "callbackQuery", "editedMessage"}

\* The dispatch table (Dispatcher.handlers, in registration order) and the
\* middleware chain (Dispatcher.middlewares) of the modelled bot.
Handlers ==
    << [cls |-> "MessageHandler", filter |-> "none"],
       [cls |-> "BaseHandler", filter |-> "messagetext"],
       [cls |-> "BotButtonCommandHandler", filter |-> "none"],
       [cls |-> "BaseHandler", filter |-> "callback"] >>

Middlewares == << "AccessMiddleware", "UserRoleMiddleware" >>

\* ------------------------------------------------------------- variables
VARIABLES
    last_event_id,    \* Bot.last_event_id, the cursor
    pollPc,           \* position of start_polling: top, await, except
    reqLastEventId,   \* lastEventId carried by the request in flight
    current_retries,  \* the retry wrapper's remaining attempts
    err,              \* exception held by start_polling's except clause
    tasks,            \* dispatch tasks created by asyncio.create_task
    notHanded,        \* history: decodable events of the last batch that got
                      \* no dispatch task
    dispatched,       \* history: the eventIds dispatched so far
    redelivered,      \* history: some eventId was dispatched a second time
                      \* (both kept while srvGreater holds and nothing was
                      \* redelivered yet)
    lastRecv,         \* history: last eventId of the last non-empty batch
    srvGreater,       \* history: every answer held only ids > lastEventId sent
    srvAscending,     \* history: ... and listed them in strictly ascending order
    events,           \* start_polling: the elements of `events` its for loop
                      \* has taken, in the order it took them
    response          \* get_events: what the request just answered was
                      \* answered with (none while a request is under way
                      \* or when it raised)

\* the retry wrapper taken alone (RetrySpec); it shares current_retries and err
VARIABLES
    established_retries,    \* wrapper: kwargs.get("_count_request_retries", 2)
    delay_between_retries,  \* wrapper: kwargs.get("delay_between_retries"), 0 = None
    wrapPc,                 \* position of the wrapper: idle, call, sleep,
                            \* returned, raised
    result,                 \* what the wrapper returned: none yet, None, response
    attemptLog              \* history: the outcome of each attempt of the call

\* the state store (StoreSpec)
VARIABLES
    users_states,              \* DictUserState.users_states
    now,                       \* datetime.now(), in seconds
    message_timeout_to_users,  \* UserState.message_timeout_to_users
    sweepPc,                   \* position of session_timeout_handler: sleep,
                               \* send, crashed
    users,                     \* _session_timeout_handler: the keys not yet visited
    opOutcome,                 \* how the last store call ended: ok, logged, raised
    calls,                     \* history: the number of store calls made
    chat_id,                   \* the chat_id of the bot_send_text call the sweep
                               \* is suspended in, "none" when in none
    expiredAtTick,             \* history: users whose entry was expired when the
                               \* running tick began
    touched                    \* history: users a store call was made for while
                               \* the running tick was suspended

\* Event.__init__ taken alone (DecodeSpec)
VARIABLES
    evType,      \* type_: the EventType the Event is built for
    evData,      \* data: the keys the payload holds
    evOutcome    \* pending, ok, or the exception Event(...) raised

\* the parameters of a request taken alone (ParamSpec)
VARIABLES
    kwargs,    \* get_request / post_request: the keyword arguments passed
    params,    \* the params handed to the aiohttp session
    reqPc      \* start, or the request made: get, post

\* BaseHandler.handle taken alone (HandleSpec)
VARIABLES
    depends,     \* bot.depends: the providers registered, by kind
    signature,   \* the provider each parameter of the callback is annotated
                 \* with, by kind, in the order of the parameters
    handlePc,    \* position of handle: start, resolve, callback, returned,
                 \* raised, typeError
    item,        \* handle's for loop: the parameter it is at
    objects,     \* handle: the keyword arguments built for the callback
    genState     \* per parameter, the async generator made for it: none,
                 \* suspended (at its yield), closed (its teardown has run)

\* a handler that calls set twice (TwiceSpec)
VARIABLES
    twPc,        \* start, once (one call made), done
    twSd,        \* the StateData both calls are made with
    afterFirst   \* history: users_states as the first call left it

\* dispatched handlers that read a user's data and write it back (RaceSpec)
VARIABLES
    rmwPc,     \* per handler: start, read (suspended after its read), done
    rmwRead    \* per handler: the value it read

\* the construction of the store (SingletonSpec)
VARIABLES
    instance,       \* DictUserState._instance: 0 is None, else the object
    allocated,      \* history: the number of objects object.__new__ made
    user_state,     \* per Bot constructed, the object its user_state is
    bot_send_text   \* the instance's bot_send_text: the Bot whose send_text
                    \* it is, 0 while there is no instance

\* the handler scan of one event with a text (CheckSpec)
VARIABLES
    cmdHandlers,   \* Dispatcher.handlers: the handlers registered, in order
    cmdEvent,      \* the event under dispatch: its type and its text
    cmdPos,        \* processed_event's for loop: the handler it is at
    cmdInvoked     \* the handler whose handle was awaited, 0 when none

pipelineVars == << last_event_id, pollPc, reqLastEventId, current_retries, err,
                   tasks, notHanded, dispatched, redelivered, lastRecv,
                   srvGreater, srvAscending, response, events >>

retryVars == << established_retries, delay_between_retries, wrapPc, result,
               attemptLog >>

storeVars == << users_states, now, message_timeout_to_users, sweepPc, users,
                opOutcome, calls, expiredAtTick, touched, chat_id >>

decodeVars == << evType, evData, evOutcome >>

\* the parts that are taken alone, each in a specification of its own
paramVars == << kwargs, params, reqPc >>

handleVars == << depends, signature, handlePc, item, objects, genState >>

twiceVars == << twPc, twSd, afterFirst >>

raceVars == << rmwPc, rmwRead >>

singletonVars == << instance, allocated, user_state, bot_send_text >>

checkVars == << cmdHandlers, cmdEvent, cmdPos, cmdInvoked >>

otherVars == << decodeVars, paramVars, handleVars, twiceVars, raceVars,
               singletonVars, checkVars >>

\* the variables the pipeline does not touch
outsidePipeline == << retryVars, storeVars, otherVars >>

vars == << last_event_id, pollPc, reqLastEventId, current_retries, err, tasks,
           notHanded, dispatched, redelivered, lastRecv, srvGreater,
           srvAscending, response, events, retryVars, storeVars, otherVars >>

pollVars == << last_event_id, pollPc, reqLastEventId, current_retries, err,
               notHanded, dispatched, redelivered, lastRecv, srvGreater,
               srvAscending, response, events, retryVars, storeVars, otherVars >>

\* ------------------------------------------------------------ pure parts
\* The platform's event log: an eventId names one event, so the content of
\* the envelope {"eventId", "type", "payload"} is a function of its id.
TypeOfId(id) ==
    CASE id % 4 = 1 -> "newMessage"
      [] id % 4 = 2 -> "bogus"
      [] id % 4 = 3 -> "editedMessage"
      [] OTHER -> "callbackQuery"

WireEvent(id) == [eventId |-> id, type |-> TypeOfId(id)]

WireEvents == { WireEvent(id) : id \in 1..MaxEventId }

\* the non-empty events lists a response may carry
Batches == UNION { [1..n -> WireEvents] : n \in 1..MaxBatch }

\* Event.__init__ : raises for a type outside the enumeration
DecodeRaises(ev) == ev.type \notin EventTypes

\* the filter predicates used by the dispatch table
FilterResult(f, type) ==
    CASE f = "messagetext" -> type = "newMessage"
      [] f = "callback" -> type = "callbackQuery"
      [] OTHER -> FALSE

\* BaseHandler.check and its subclasses' overrides
Check(hd, type) ==
    LET base == (hd.filter = "none") \/ FilterResult(hd.filter, type)
    IN CASE hd.cls = "MessageHandler" -> base /\ type = "newMessage"
         [] hd.cls = "BotButtonCommandHandler" -> base /\ type = "callbackQuery"
         [] OTHER -> base

FirstMatchLast(type, from) ==
    LET S == { h \in from..Len(Handlers) : Check(Handlers[h], type) }
    IN IF S = {} THEN 0 ELSE CHOOSE h \in S : \A g \in S : h >= g

\* the first handler at or after position `from` whose check is true; 0 if none
FirstMatch(type, from) ==
    LET S == { h \in from..Len(Handlers) : Check(Handlers[h], type) }
    IN IF S = {} THEN 0 ELSE CHOOSE h \in S : \A g \in S : h <= g

NextScanStartNoBreak(h) == h + 1

\* where the handler scan resumes after handler h returned: `break`
NextScanStart(h) == Len(Handlers) + 1

NewCursorFirst(old, batch) == batch[1].eventId

NewCursorKept(old, batch) == old

\* Bot.set_last_event_id as called by get_events: the last element's eventId
NewCursor(old, batch) == batch[Len(batch)].eventId

AfterExceptStop == "stopped"

\* where start_polling goes after its except clause logged the error
AfterExcept == "top"

PollAwaitsTasks(ts) == \A i \in 1..Len(ts) : ts[i].pc \in {"done", "failed"}

\* whether start_polling may go round its loop given the dispatch tasks:
\* create_task returns at once, nothing is awaited
PollMayProceed(ts) == TRUE

TasksAfterRaiseCancelAll(ts, i, exc) ==
    [k \in 1..Len(ts) |->
        IF k = i \/ ts[k].pc \notin {"done", "failed"}
        THEN [ts[k] EXCEPT !.pc = "failed", !.type = "", !.mwi = 0, !.h = 0,
                           !.old = FALSE, !.exc = exc]
        ELSE ts[k]]

TasksAfterRaiseGoesOn(ts, i, exc) ==
    [ts EXCEPT ![i] =
        IF exc = "MiddlewareError"
        THEN [@ EXCEPT !.pc = "handler", !.mwi = 0, !.h = 1, !.invoked = 1]
        ELSE [@ EXCEPT !.pc = "failed", !.type = "", !.mwi = 0, !.h = 0,
                       !.old = FALSE, !.exc = exc]]

\* the tasks after task i raised exc: the exception stays in that task
TasksAfterRaise(ts, i, exc) ==
    [ts EXCEPT ![i] = [@ EXCEPT !.pc = "failed", !.type = "", !.mwi = 0,
                                !.h = 0, !.old = FALSE, !.exc = exc]]

\* the number of events of batch the for loop of start_polling reaches
\* before Event(...) raises: each gets a dispatch task
RECURSIVE CreatedCount(_)
CreatedCount(batch) ==
    IF batch = << >> \/ DecodeRaises(Head(batch)) THEN 0
    ELSE 1 + CreatedCount(Tail(batch))

\* the same tasks created last event first
NewTasksReversed(batch, cur) ==
    [k \in 1..CreatedCount(batch) |->
        [type |-> batch[CreatedCount(batch) + 1 - k].type, pc |-> "new",
         mwi |-> 0, h |-> 0, invoked |-> 0, old |-> FALSE, exc |-> "none",
         adv |-> (cur = batch[Len(batch)].eventId)]]

\* the dispatch tasks the for loop creates, in the order it creates them;
\* cur is the cursor at that time
NewTasks(batch, cur) ==
    [k \in 1..CreatedCount(batch) |->
        [type |-> batch[k].type, pc |-> "new", mwi |-> 0, h |-> 0,
         invoked |-> 0, old |-> FALSE, exc |-> "none",
         adv |-> (cur = batch[Len(batch)].eventId)]]

\* the decodable events of batch the for loop never reaches
Unreached(batch) ==
    Cardinality({ k \in CreatedCount(batch) + 1..Len(batch) :
                    ~DecodeRaises(batch[k]) })

AllGreater(batch, sent) == \A k \in 1..Len(batch) : batch[k].eventId > sent

Ascending(batch) ==
    \A k \in 1..Len(batch) - 1 : batch[k].eventId < batch[k + 1].eventId

\* whether batch[1..n] holds some eventId twice
RepeatsIn(batch, n) ==
    \E j, k \in 1..n : j < k /\ batch[j].eventId = batch[k].eventId

\* whether handing batch[1..n] to the dispatcher dispatches an id again
Redelivers(seen, batch, n) ==
    \/ \E k \in 1..n : batch[k].eventId \in seen
    \/ RepeatsIn(batch, n)

\* the answers get_events takes no events from: a falsy response (None from
\* the wrapper, an empty body), a response without the key "events", and
\* one whose "events" is the empty list
NoEventResponses == {"falsy", "noEventsKey", "emptyList"}

\* what get_events' try block raises for such a response
RaisedInside(resp) ==
    IF resp = "noEventsKey" THEN "EventsKeyMissingError" ELSE "none"

\* get_events: `except EventsKeyMissingError: logger.error(...)`
CaughtNothing(exc) == FALSE

Caught(exc) == exc = "EventsKeyMissingError"

\* the exception leaves get_events
Escapes(resp) == RaisedInside(resp) # "none" /\ ~Caught(RaisedInside(resp))

\* the cursor after such a response: set_last_event_id is called only under
\* `if response.get("events"):`
CursorWithoutEventsReset(old) == 0

CursorWithoutEvents(old) == old

\* ------------------------------------------------------------------ Init
\* the pipeline before start_polling's first iteration
PipelineIdle ==
    /\ last_event_id = 0
    /\ pollPc = "top"
    /\ reqLastEventId = 0
    /\ tasks = << >>
    /\ notHanded = 0
    /\ dispatched = {}
    /\ redelivered = FALSE
    /\ lastRecv = 0
    /\ srvGreater = TRUE
    /\ srvAscending = TRUE
    /\ response = "none"
    /\ events = << >>

\* no wrapped call under way
RetryIdle ==
    /\ established_retries = 0
    /\ delay_between_retries = 0
    /\ wrapPc = "idle"
    /\ result = "none"
    /\ attemptLog = << >>

\* the store as the class statement leaves it, the sweep not started
StoreIdle ==
    /\ users_states = [u \in {} |-> 0]
    /\ now = 0
    /\ message_timeout_to_users = FALSE
    /\ sweepPc = "sleep"
    /\ users = << >>
    /\ opOutcome = "ok"
    /\ calls = 0
    /\ expiredAtTick = {}
    /\ touched = {}
    /\ chat_id = "none"

\* no Event under construction
DecodeIdle ==
    /\ evType = "newMessage"
    /\ evData = {}
    /\ evOutcome = "pending"

\* no request under construction
ParamIdle ==
    /\ kwargs = [k \in {} |-> 0]
    /\ params = [k \in {} |-> 0]
    /\ reqPc = "start"

\* no handler invoked
HandleIdle ==
    /\ depends = {}
    /\ signature = << >>
    /\ handlePc = "start"
    /\ item = 1
    /\ objects = [i \in {} |-> 0]
    /\ genState = << >>

\* no such handler running
TwiceIdle ==
    /\ twPc = "start"
    /\ twSd = "none"
    /\ afterFirst = [u \in {} |-> 0]

\* no such handlers dispatched
RaceIdle ==
    /\ rmwPc = << >>
    /\ rmwRead = << >>

\* the class statement has run, no Bot was constructed
SingletonIdle ==
    /\ instance = 0
    /\ allocated = 0
    /\ user_state = << >>
    /\ bot_send_text = 0

CheckIdle ==
    /\ cmdHandlers = << >>
    /\ cmdEvent = [type |-> "", text |-> << >>]
    /\ cmdPos = 0
    /\ cmdInvoked = 0

OthersIdle ==
    /\ DecodeIdle
    /\ ParamIdle
    /\ HandleIdle
    /\ TwiceIdle
    /\ RaceIdle
    /\ SingletonIdle
    /\ CheckIdle

Init ==
    /\ PipelineIdle
    /\ current_retries = 0
    /\ err = "none"
    /\ RetryIdle
    /\ StoreIdle
    /\ OthersIdle

\* ------------------------------------------------------------- poll loop
\* start_polling: `events = await self.get_events(...)` up to the request
CallGetEvents ==
    /\ pollPc = "top"
    /\ PollMayProceed(tasks)
    /\ reqLastEventId' = last_event_id
    /\ current_retries' = CountRequestRetries
    /\ pollPc' = IF CountRequestRetries > 0 THEN "await" ELSE "top"
    /\ notHanded' = 0
    /\ response' = "none"
    /\ events' = << >>
    /\ UNCHANGED << last_event_id, err, tasks, dispatched, redelivered,
                    lastRecv, srvGreater, srvAscending >>
    /\ UNCHANGED outsidePipeline

\* the awaited response is processed only after the tasks created so far
\* have started
NoneNew == \A i \in 1..Len(tasks) : tasks[i].pc # "new"

\* HTTP status >= 500: ResponseStatus500orHigherError, retried by the wrapper
RespondServerError ==
    /\ pollPc = "await"
    /\ NoneNew
    /\ current_retries' = current_retries - 1
    /\ IF current_retries - 1 = 0
       THEN pollPc' = "except" /\ err' = "ServerError"
       ELSE pollPc' = "await" /\ err' = err
    /\ UNCHANGED << last_event_id, reqLastEventId, tasks, notHanded, dispatched,
                    redelivered, lastRecv, srvGreater, srvAscending,
                    response, events >>
    /\ UNCHANGED outsidePipeline

\* any other failure of the call: logged in get_request and re-raised
RespondOtherError ==
    /\ pollPc = "await"
    /\ NoneNew
    /\ \E e \in {"ClientError", "TransportError"} : err' = e
    /\ pollPc' = "except"
    /\ current_retries' = 0
    /\ UNCHANGED << last_event_id, reqLastEventId, tasks, notHanded, dispatched,
                    redelivered, lastRecv, srvGreater, srvAscending,
                    response, events >>
    /\ UNCHANGED outsidePipeline

\* A response with no events to return: falsy, without "events", or with
\* "events": [].  get_events returns None unless what it raised inside its
\* try block gets past its except clause.
RespondNoEvents ==
    /\ pollPc = "await"
    /\ NoneNew
    /\ \E resp \in NoEventResponses :
        /\ response' = resp
        /\ events' = << >>
        /\ IF Escapes(resp)
           THEN pollPc' = "except" /\ err' = RaisedInside(resp)
           ELSE pollPc' = "top" /\ err' = err
    /\ last_event_id' = CursorWithoutEvents(last_event_id)
    /\ current_retries' = 0
    /\ UNCHANGED << reqLastEventId, tasks, notHanded, dispatched, redelivered,
                    lastRecv, srvGreater, srvAscending >>
    /\ UNCHANGED outsidePipeline

\* A response with a non-empty events list.  get_events moves the cursor and
\* returns the list; start_polling's for loop builds an Event and creates a
\* dispatch task per element until one Event(...) raises.  No await lies
\* between, so the whole is one step.
ReceiveBatch(batch) ==
    LET cur == NewCursor(last_event_id, batch)
        n == CreatedCount(batch)
        hyp == srvGreater /\ AllGreater(batch, reqLastEventId)
        again == hyp /\ Redelivers(dispatched, batch, n)
    IN /\ Len(tasks) + n <= MaxTasks
       /\ last_event_id' = cur
       /\ lastRecv' = batch[Len(batch)].eventId
       /\ tasks' = [i \in 1..Len(tasks) |->
                      IF tasks[i].pc \in {"mw", "handler"}
                      THEN [tasks[i] EXCEPT !.old = TRUE] ELSE tasks[i]]
                   \o NewTasks(batch, cur)
       /\ notHanded' = Unreached(batch)
       /\ srvGreater' = hyp
       /\ srvAscending' = (srvAscending /\ hyp /\ Ascending(batch))
       /\ redelivered' = (redelivered \/ again)
       /\ dispatched' = IF hyp /\ ~redelivered'
                        THEN dispatched \cup { batch[k].eventId : k \in 1..n }
                        ELSE {}
       /\ current_retries' = 0
       /\ response' = "events"
       /\ events' = SubSeq(batch, 1, n)
       /\ UNCHANGED reqLastEventId
       /\ UNCHANGED outsidePipeline

\* every Event(...) of the batch succeeds: the for loop runs to its end
RespondEvents ==
    /\ pollPc = "await"
    /\ NoneNew
    /\ \E batch \in Batches :
        /\ CreatedCount(batch) = Len(batch)
        /\ ReceiveBatch(batch)
    /\ pollPc' = "top"
    /\ err' = err

\* some Event(...) raises: the for loop is left for the except clause
RespondEventsDecodeError ==
    /\ pollPc = "await"
    /\ NoneNew
    /\ \E batch \in Batches :
        /\ CreatedCount(batch) < Len(batch)
        /\ ReceiveBatch(batch)
    /\ pollPc' = "except"
    /\ err' = "DecodeError"

\* except Exception as err: logger.error(...)
LogError ==
    /\ pollPc = "except"
    /\ pollPc' = AfterExcept
    /\ err' = "none"
    /\ UNCHANGED << last_event_id, reqLastEventId, current_retries, tasks,
                    notHanded, dispatched, redelivered, lastRecv, srvGreater,
                    srvAscending, response, events >>
    /\ UNCHANGED outsidePipeline

\* -------------------------------------------------------- dispatch tasks
\* the handler scan of processed_event from position `from`
Scan(t, from) ==
    LET h == FirstMatch(t.type, from)
    IN IF h = 0
       THEN [t EXCEPT !.pc = "done", !.type = "", !.mwi = 0, !.h = 0,
                      !.old = FALSE]
       ELSE [t EXCEPT !.pc = "handler", !.mwi = 0, !.h = h,
                      !.invoked = @ + 1]

\* the task's first step: processed_event runs up to its first await
TaskStart(i) ==
    /\ pollPc = "await"
    /\ tasks[i].pc = "new"
    /\ \A j \in 1..i - 1 : tasks[j].pc # "new"
    /\ tasks' = [tasks EXCEPT ![i] =
                   LET t == [@ EXCEPT !.adv = @ /\ last_event_id = lastRecv]
                   IN IF Len(Middlewares) = 0 THEN Scan(t, 1)
                      ELSE [t EXCEPT !.pc = "mw", !.mwi = 1]]
    /\ UNCHANGED pollVars

\* `event = await middleware.handle(event, self.bot)` returns
MiddlewareReturn(i) ==
    /\ pollPc = "await"
    /\ tasks[i].pc = "mw"
    /\ tasks' = [tasks EXCEPT ![i] =
                   IF @.mwi < Len(Middlewares)
                   THEN [@ EXCEPT !.mwi = @ + 1]
                   ELSE Scan(@, 1)]
    /\ UNCHANGED pollVars

\* middleware.handle raises (AccessMiddleware: PermissionError)
MiddlewareRaise(i) ==
    /\ pollPc = "await"
    /\ tasks[i].pc = "mw"
    /\ tasks' = TasksAfterRaise(tasks, i, "MiddlewareError")
    /\ UNCHANGED pollVars

\* `await handler.handle(event, self.bot)` returns; break
HandlerReturn(i) ==
    /\ pollPc = "await"
    /\ tasks[i].pc = "handler"
    /\ tasks' = [tasks EXCEPT ![i] = Scan(@, NextScanStart(@.h))]
    /\ UNCHANGED pollVars

\* handler.handle raises
HandlerRaise(i) ==
    /\ pollPc = "await"
    /\ tasks[i].pc = "handler"
    /\ tasks' = TasksAfterRaise(tasks, i, "HandlerError")
    /\ UNCHANGED pollVars

\* a finished task is dropped by the event loop; nothing retrieved its
\* result or exception
Reap(i) ==
    /\ pollPc = "await"
    /\ tasks[i].pc \in {"done", "failed"}
    /\ tasks' = [k \in 1..Len(tasks) - 1 |->
                   IF k < i THEN tasks[k] ELSE tasks[k + 1]]
    /\ UNCHANGED pollVars

PollStep ==
    \/ CallGetEvents
    \/ RespondServerError
    \/ RespondOtherError
    \/ RespondNoEvents
    \/ RespondEvents
    \/ RespondEventsDecodeError
    \/ LogError

Next ==
    \/ CallGetEvents
    \/ RespondServerError
    \/ RespondOtherError
    \/ RespondNoEvents
    \/ RespondEvents
    \/ RespondEventsDecodeError
    \/ LogError
    \/ \E i \in 1..Len(tasks) : TaskStart(i)
    \/ \E i \in 1..Len(tasks) : MiddlewareReturn(i)
    \/ \E i \in 1..Len(tasks) : MiddlewareRaise(i)
    \/ \E i \in 1..Len(tasks) : HandlerReturn(i)
    \/ \E i \in 1..Len(tasks) : HandlerRaise(i)
    \/ \E i \in 1..Len(tasks) : Reap(i)

Spec == Init /\ [][Next]_vars

\* The event loop keeps running the polling coroutine, and every request is
\* answered or runs into the session's total timeout; created tasks are
\* started.  Nothing obliges a middleware or a handler to finish.
FairSpec ==
    /\ Spec
    /\ WF_vars(PollStep)
    /\ WF_vars(\E i \in 1..Len(tasks) : TaskStart(i))

\* ---------------------------------------------------- the retry wrapper
\* the variables a wrapped call does not touch
outsideRetry == << last_event_id, pollPc, reqLastEventId, tasks, notHanded,
                   dispatched, redelivered, lastRecv, srvGreater, srvAscending,
                   response, events, storeVars, otherVars >>

\* the values of _count_request_retries and delay_between_retries a caller
\* passes (delay 0 stands for None and for 0: `if delay:` is false)
RetryCounts == -1..MaxRetries

Delays == {0, 1}

\* What one attempt (get_request / post_request under raise_for_status=True)
\* can meet: an HTTP status with a JSON body, a body that is no JSON, or no
\* response at all (network error, total timeout).
Outcomes ==
    { [kind |-> "http", status |-> st] : st \in {200, 404, 499, 500, 503} }
        \cup { [kind |-> "badjson", status |-> 200],
               [kind |-> "timeout", status |-> 0] }

\* the attempt returns response_json
AttemptSucceeds(o) == o.kind = "http" /\ o.status < 400

IsServerErrorFrom400(o) == o.kind = "http" /\ o.status >= 400

\* get_request raises ResponseStatus500orHigherError: `err.status >= 500`
IsServerError(o) == o.kind = "http" /\ o.status >= 500

\* the exception an attempt that does not succeed leaves get_request with
RaisedBy(o) ==
    CASE IsServerError(o) -> "ServerError"
      [] o.kind = "http" -> "ClientError"
      [] OTHER -> "TransportError"

ExhaustedEarly(c) == c <= 1

\* `if current_retries == 0:` after the decrement
Exhausted(c) == c = 0

\* wrapper(...) up to its first await: the kwargs are read, and with a count
\* of 0 or less the while loop is not entered and the wrapper returns None
Call(n, d) ==
    /\ wrapPc = "idle"
    /\ established_retries' = n
    /\ delay_between_retries' = d
    /\ current_retries' = n
    /\ attemptLog' = << >>
    /\ err' = "none"
    /\ IF n > 0
       THEN wrapPc' = "call" /\ result' = "none"
       ELSE wrapPc' = "returned" /\ result' = "None"
    /\ response' = "none"
    /\ UNCHANGED << last_event_id, pollPc, reqLastEventId, tasks, notHanded,
                    dispatched, redelivered, lastRecv, srvGreater,
                    srvAscending, events, storeVars, otherVars >>

\* `return await func(self, *args, **kwargs)` returns
AttemptReturns(o) ==
    /\ wrapPc = "call"
    /\ AttemptSucceeds(o)
    /\ attemptLog' = Append(attemptLog, o)
    /\ wrapPc' = "returned"
    /\ result' = "response"
    /\ UNCHANGED << established_retries, delay_between_retries,
                    current_retries, err >>
    /\ UNCHANGED outsideRetry

\* the attempt raises ResponseStatus500orHigherError: the except clause
\* counts down and raises at 0; otherwise the loop goes round, sleeping
\* first when a delay is given
AttemptServerError(o) ==
    /\ wrapPc = "call"
    /\ ~AttemptSucceeds(o)
    /\ IsServerError(o)
    /\ attemptLog' = Append(attemptLog, o)
    /\ current_retries' = current_retries - 1
    /\ IF Exhausted(current_retries - 1)
       THEN wrapPc' = "raised" /\ err' = "ServerError"
       ELSE /\ err' = err
            /\ wrapPc' = IF current_retries - 1 > 0
                          THEN (IF delay_between_retries # 0
                                THEN "sleep" ELSE "call")
                          ELSE "returned"
    /\ result' = IF ~Exhausted(current_retries - 1) /\ current_retries - 1 <= 0
                 THEN "None" ELSE result
    /\ UNCHANGED << established_retries, delay_between_retries >>
    /\ UNCHANGED outsideRetry

\* the attempt raises anything else: the wrapper has no except clause for it
AttemptOtherError(o) ==
    /\ wrapPc = "call"
    /\ ~AttemptSucceeds(o)
    /\ ~IsServerError(o)
    /\ attemptLog' = Append(attemptLog, o)
    /\ wrapPc' = "raised"
    /\ err' = RaisedBy(o)
    /\ UNCHANGED << established_retries, delay_between_retries,
                    current_retries, result >>
    /\ UNCHANGED outsideRetry

\* `await asyncio.sleep(delay)` is over
SleepDone ==
    /\ wrapPc = "sleep"
    /\ wrapPc' = "call"
    /\ UNCHANGED << established_retries, delay_between_retries,
                    current_retries, err, result, attemptLog >>
    /\ UNCHANGED outsideRetry

\* the caller has the wrapper's result or exception; the next call may come
CallerResumes ==
    /\ wrapPc \in {"returned", "raised"}
    /\ wrapPc' = "idle"
    /\ established_retries' = 0
    /\ delay_between_retries' = 0
    /\ current_retries' = 0
    /\ err' = "none"
    /\ result' = "none"
    /\ attemptLog' = << >>
    /\ UNCHANGED outsideRetry

\* the caller is get_events (bot.py 94-105): it takes the wrapper's return
\* value as its response.  None is falsy; a response_json may be falsy, lack
\* the key "events", hold an empty list, or hold events, and only then the
\* cursor moves.
GetEventsResumes ==
    /\ wrapPc = "returned"
    /\ \/ /\ \E resp \in NoEventResponses :
               /\ result = "None" => resp = "falsy"
               /\ response' = resp
               /\ err' = IF Escapes(resp) THEN RaisedInside(resp) ELSE "none"
          /\ last_event_id' = CursorWithoutEvents(last_event_id)
          /\ lastRecv' = lastRecv
       \/ /\ result = "response"
          /\ \E batch \in Batches :
               /\ last_event_id' = NewCursor(last_event_id, batch)
               /\ lastRecv' = batch[Len(batch)].eventId
          /\ response' = "events"
          /\ err' = "none"
    /\ wrapPc' = "idle"
    /\ established_retries' = 0
    /\ delay_between_retries' = 0
    /\ current_retries' = 0
    /\ result' = "none"
    /\ attemptLog' = << >>
    /\ UNCHANGED << pollPc, reqLastEventId, tasks, notHanded, dispatched,
                    redelivered, srvGreater, srvAscending, events, storeVars,
                    otherVars >>

RetryNext ==
    \/ \E n \in RetryCounts, d \in Delays : Call(n, d)
    \/ GetEventsResumes
    \/ \E o \in Outcomes : AttemptReturns(o)
    \/ \E o \in Outcomes : AttemptServerError(o)
    \/ \E o \in Outcomes : AttemptOtherError(o)
    \/ SleepDone
    \/ CallerResumes

RetrySpec == Init /\ [][RetryNext]_vars

\* -------------------------------------------------------- the state store
\* the variables the store and its sweep do not touch
outsideStore == << last_event_id, pollPc, reqLastEventId, current_retries, err,
                   tasks, notHanded, dispatched, redelivered, lastRecv,
                   srvGreater, srvAscending, response, events, retryVars, otherVars >>

\* User ids.  "user" is a user whose id is the string the store's code uses
\* as a literal key.
Users == {"u1", "user"}

\* the key update_user_additional, get_user_additional and
\* set_new_expire_session index users_states with
LiteralKey == "user"

\* state names; "None" is Python's None
StateNames == {"None", "await_name"}

EmptyMap == [k \in {} |-> 0]

\* the dicts a caller passes as data or additional: none, one key with
\* either of two values, another key (the empty one also stands for None in
\* StateData: `if state_data.data:` is false for both)
Mappings ==
    { EmptyMap, [k \in {"a"} |-> 1], [k \in {"a"} |-> 2], [k \in {"b"} |-> 1] }

\* the expire_session values a StateData carries
ExpireSessions == {30}

\* the clock moves in steps of the update default
ClockStep == UpdateExpireSession

\* users_states[u] = e
Put(us, u, e) == [x \in DOMAIN us \cup {u} |-> IF x = u THEN e ELSE us[x]]

\* del users_states[u]
Remove(us, u) == [x \in DOMAIN us \ {u} |-> us[x]]

\* `for key, value in part.items(): old[key] = value`
MergeReplaces(old, part) == part

MergeAdds(old, part) ==
    [k \in DOMAIN old \cup DOMAIN part |->
        IF k \notin DOMAIN part THEN old[k]
        ELSE IF k \in DOMAIN old THEN old[k] + part[k] ELSE part[k]]

Merge(old, part) ==
    [k \in DOMAIN old \cup DOMAIN part |->
        IF k \in DOMAIN part THEN part[k] ELSE old[k]]

\* DictUserState.set_new_expire_session: the test is on `user`, the write
\* goes to users_states["user"]; its KeyError is caught and logged
set_new_expire_session(us, t, user, expire_session) ==
    IF user \notin DOMAIN us THEN [us |-> us, out |-> "ok"]
    ELSE IF LiteralKey \notin DOMAIN us THEN [us |-> us, out |-> "logged"]
    ELSE [us |-> Put(us, LiteralKey,
                     [us[LiteralKey] EXCEPT !.expire_session = t + expire_session]),
          out |-> "ok"]

\* DictUserState.update_user_state
update_user_state_creates(us, t, user, state) ==
    [us |-> Put(us, user,
                [expire_session |-> t + UpdateExpireSession, state |-> state,
                 data |-> EmptyMap, additional |-> EmptyMap]),
     out |-> "ok"]

update_user_state(us, t, user, state) ==
    IF user \notin DOMAIN us THEN [us |-> us, out |-> "ok"]
    ELSE set_new_expire_session(
             Put(us, user, [us[user] EXCEPT !.state = state]),
             t, user, UpdateExpireSession)

\* DictUserState.update_user_data: users_states[user] raises KeyError at the
\* first key when the user has no entry
update_user_data(us, t, user, data) ==
    IF user \notin DOMAIN us
    THEN [us |-> us, out |-> IF DOMAIN data = {} THEN "ok" ELSE "logged"]
    ELSE set_new_expire_session(
             Put(us, user, [us[user] EXCEPT !.data = Merge(@, data)]),
             t, user, UpdateExpireSession)

\* DictUserState.update_user_additional: users_states["user"]["additional"]
\* is assigned the dict passed
update_user_additional(us, t, user, additional) ==
    IF user \notin DOMAIN us THEN [us |-> us, out |-> "ok"]
    ELSE IF LiteralKey \notin DOMAIN us THEN [us |-> us, out |-> "logged"]
    ELSE set_new_expire_session(
             Put(us, LiteralKey,
                 [us[LiteralKey] EXCEPT !.additional = additional]),
             t, user, UpdateExpireSession)

\* DictUserState.get_user_additional: how it ends, and in val what it
\* returns ({} for None and for no return): the test is on `user`, the read
\* is users_states["user"], outside any try
get_user_additional(us, user) ==
    IF user \notin DOMAIN us THEN [us |-> us, out |-> "ok", val |-> {}]
    ELSE IF LiteralKey \notin DOMAIN us
    THEN [us |-> us, out |-> "raised", val |-> {}]
    ELSE [us |-> us, out |-> "ok", val |-> {us[LiteralKey].additional}]

\* `"expire_session": None` in the entry set creates
NullExpiry == -1

\* the entry set creates for a user that has none
NewEntry ==
    [expire_session |-> NullExpiry, state |-> "None", data |-> EmptyMap,
     additional |-> EmptyMap]

ExpiryLeftNull(old, t, e) == IF old = NullExpiry THEN NullExpiry ELSE t + e

\* set: `users_states[user]["expire_session"] = datetime.now() +
\* timedelta(seconds=state_data.expire_session)`, whatever was there
ExpiryAssigned(old, t, e) == t + e

\* DictUserState.set: the entry is created when missing, then its fields
\* are assigned one after the other; set does not await, so the writes are
\* one step
set(us, t, sd) ==
    LET created == IF sd.user \in DOMAIN us THEN us
                   ELSE Put(us, sd.user, NewEntry)
        old == created[sd.user]
    IN [us |-> Put(created, sd.user,
                   [expire_session |->
                        ExpiryAssigned(old.expire_session, t,
                                       sd.expire_session),
                    state |-> sd.state,
                    data |-> Merge(old.data, sd.data),
                    additional |-> Merge(old.additional, sd.additional)]),
        out |-> "ok"]

\* `del self.users_states[user]` without the test before it
delete_user_unguarded(us, user) ==
    IF user \in DOMAIN us THEN [us |-> Remove(us, user), out |-> "ok"]
    ELSE [us |-> us, out |-> "raised"]

\* DictUserState.delete_user
delete_user(us, user) ==
    [us |-> IF user \in DOMAIN us THEN Remove(us, user) ELSE us, out |-> "ok"]

\* the StateData objects a handler builds: one of data and additional given
StateDatas ==
    { sd \in [user : Users, state : StateNames, data : Mappings,
              expire_session : ExpireSessions, additional : Mappings] :
        sd.data = EmptyMap \/ sd.additional = EmptyMap }

\* the users whose entry is not what it was
Changed(us, us2) ==
    { u \in Users : \/ (u \in DOMAIN us) # (u \in DOMAIN us2)
                    \/ u \in DOMAIN us /\ u \in DOMAIN us2 /\ us[u] # us2[u] }

\* A handler or middleware calls a store method for `user`; r is what the
\* method makes of the store.  The methods do not await, so the call is one
\* step; it can come whenever the sweep is suspended.
StoreCall(user, r) ==
    /\ calls < MaxCalls
    /\ calls' = calls + 1
    /\ users_states' = r.us
    /\ opOutcome' = r.out
    /\ touched' = IF sweepPc = "send"
                  THEN touched \cup {user} \cup Changed(users_states, r.us)
                  ELSE touched
    /\ UNCHANGED << now, message_timeout_to_users, sweepPc, users,
                    expiredAtTick, chat_id >>
    /\ UNCHANGED outsideStore

Set(sd) ==
    /\ sd \in StateDatas
    /\ StoreCall(sd.user, set(users_states, now, sd))

DeleteUser(user) ==
    /\ user \in Users
    /\ StoreCall(user, delete_user(users_states, user))

UpdateUserState(user, state) ==
    /\ user \in Users
    /\ StoreCall(user, update_user_state(users_states, now, user, state))

UpdateUserData(user, data) ==
    /\ user \in Users
    /\ StoreCall(user, update_user_data(users_states, now, user, data))

UpdateUserAdditional(user, additional) ==
    /\ user \in Users
    /\ StoreCall(user,
                 update_user_additional(users_states, now, user, additional))

SetNewExpireSession(user) ==
    /\ user \in Users
    /\ StoreCall(user, set_new_expire_session(users_states, now, user,
                                              UpdateExpireSession))

\* get_user_all_data, get_user_data, get_user_state: dict.get with defaults
GetUserData(user) ==
    /\ user \in Users
    /\ StoreCall(user, [us |-> users_states, out |-> "ok"])

GetUserAdditional(user) ==
    /\ user \in Users
    /\ StoreCall(user, get_user_additional(users_states, user))

\* time passes
ClockTick ==
    /\ now < MaxClockTicks * ClockStep
    /\ now' = now + ClockStep
    /\ UNCHANGED << users_states, message_timeout_to_users, sweepPc, users,
                    opOutcome, calls, expiredAtTick, touched, chat_id >>
    /\ UNCHANGED outsideStore

\* the orders in which list(users_states.keys()) can list the keys
RECURSIVE KeyLists(_)
KeyLists(S) ==
    IF S = {} THEN { << >> }
    ELSE UNION { { << u >> \o l : l \in KeyLists(S \ {u}) } : u \in S }

\* the users whose entry is expired at time t
Expired(us, t) == { u \in DOMAIN us : t > us[u].expire_session }

NotifiesAlways(flag) == TRUE

\* `if self.message_timeout_to_users:` after the del
Notifies(flag) == flag

\* _session_timeout_handler's for loop from the keys `list` on, up to its
\* next await or its end: an expired entry is deleted, and with the flag set
\* the loop then awaits bot_send_text; users_states[user] raises KeyError
\* for a key that is gone, and `datetime.now() > None` raises TypeError
RECURSIVE SweepFrom(_, _, _, _)
SweepFrom(us, list, t, flag) ==
    IF list = << >>
    THEN [us |-> us, users |-> << >>, pc |-> "sleep", chat_id |-> "none"]
    ELSE LET u == Head(list)
             crashed == [us |-> us, users |-> << >>, pc |-> "crashed",
                         chat_id |-> "none"]
         IN IF u \notin DOMAIN us THEN crashed
            ELSE IF us[u].expire_session = NullExpiry THEN crashed
            ELSE IF t > us[u].expire_session
            THEN IF Notifies(flag)
                 THEN [us |-> Remove(us, u), users |-> Tail(list),
                       pc |-> "send", chat_id |-> u]
                 ELSE SweepFrom(Remove(us, u), Tail(list), t, flag)
            ELSE SweepFrom(us, Tail(list), t, flag)

\* the sweep's state after its for loop ran from `list` on
SweepRuns(list) ==
    LET r == SweepFrom(users_states, list, now, message_timeout_to_users)
    IN /\ users_states' = r.us
       /\ users' = r.users
       /\ sweepPc' = r.pc
       /\ chat_id' = r.chat_id
       /\ UNCHANGED << now, message_timeout_to_users, opOutcome, calls >>
       /\ UNCHANGED outsideStore

\* session_timeout_handler: asyncio.sleep is over, a tick begins
SweepWake ==
    /\ sweepPc = "sleep"
    /\ \E list \in KeyLists(DOMAIN users_states) : SweepRuns(list)
    /\ expiredAtTick' = IF sweepPc' = "send"
                        THEN Expired(users_states, now) ELSE {}
    /\ touched' = {}

\* bot_send_text returned: the for loop goes on
SendReturns ==
    /\ sweepPc = "send"
    /\ SweepRuns(users)
    /\ expiredAtTick' = IF sweepPc' = "send" THEN expiredAtTick ELSE {}
    /\ touched' = IF sweepPc' = "send" THEN touched ELSE {}

\* bot_send_text raised (retries exhausted, 4xx, timeout): nothing between
\* it and the end of session_timeout_handler catches the exception
SendRaises ==
    /\ sweepPc = "send"
    /\ sweepPc' = "crashed"
    /\ users' = << >>
    /\ chat_id' = "none"
    /\ expiredAtTick' = {}
    /\ touched' = {}
    /\ UNCHANGED << users_states, now, message_timeout_to_users, opOutcome,
                    calls >>
    /\ UNCHANGED outsideStore

\* the store of a bot whose handlers call it; session_timeout_handler is
\* started by the application, and here it is not
StoreInit ==
    /\ PipelineIdle
    /\ current_retries = 0
    /\ err = "none"
    /\ RetryIdle
    /\ StoreIdle
    /\ OthersIdle

StoreNext ==
    \/ \E sd \in StateDatas : Set(sd)
    \/ \E u \in Users : DeleteUser(u)
    \/ \E u \in Users, st \in StateNames \ {"None"} : UpdateUserState(u, st)
    \/ \E u \in Users, d \in Mappings : UpdateUserData(u, d)
    \/ \E u \in Users, a \in Mappings : UpdateUserAdditional(u, a)
    \/ \E u \in Users : SetNewExpireSession(u)
    \/ \E u \in Users : GetUserData(u)
    \/ \E u \in Users : GetUserAdditional(u)
    \/ ClockTick

StoreSpec == StoreInit /\ [][StoreNext]_vars

\* the StateData objects of handlers that keep a state name only
PlainStateDatas ==
    { sd \in StateDatas : sd.data = EmptyMap /\ sd.additional = EmptyMap }

\* the StateData objects of handlers that keep a state name and at most the
\* one datum "a"
SweepStateDatas ==
    { sd \in StateDatas :
        sd.additional = EmptyMap /\ sd.data \in {EmptyMap, [k \in {"a"} |-> 1]} }

\* the store with session_timeout_handler running, under either setting of
\* message_timeout_to_users
SweepInit ==
    /\ PipelineIdle
    /\ current_retries = 0
    /\ err = "none"
    /\ RetryIdle
    /\ users_states = [u \in {} |-> 0]
    /\ now = 0
    /\ message_timeout_to_users \in BOOLEAN
    /\ sweepPc = "sleep"
    /\ users = << >>
    /\ opOutcome = "ok"
    /\ calls = 0
    /\ expiredAtTick = {}
    /\ touched = {}
    /\ chat_id = "none"
    /\ OthersIdle

SweepNext ==
    \/ \E sd \in SweepStateDatas : Set(sd)
    \/ \E u \in Users : DeleteUser(u)
    \/ \E u \in Users, st \in StateNames \ {"None"} : UpdateUserState(u, st)
    \/ ClockTick
    \/ SweepWake
    \/ SendReturns
    \/ SendRaises

SweepSpec == SweepInit /\ [][SweepNext]_vars

\* -------------------------------------------------- set called twice
\* the variables two calls of set do not touch
outsideTwice == << message_timeout_to_users, sweepPc, users, expiredAtTick,
                   touched, chat_id, pipelineVars, retryVars, decodeVars, paramVars,
                   handleVars, raceVars, singletonVars, checkVars >>

\* the stores the first call can find: the empty one, and what an earlier
\* set made of it
TwiceStores ==
    { EmptyMap } \cup { set(EmptyMap, 0, sd).us : sd \in StateDatas }

TwiceInit ==
    /\ PipelineIdle
    /\ current_retries = 0
    /\ err = "none"
    /\ RetryIdle
    /\ DecodeIdle
    /\ ParamIdle
    /\ HandleIdle
    /\ RaceIdle
    /\ SingletonIdle
    /\ CheckIdle
    /\ users_states \in TwiceStores
    /\ now = 0
    /\ message_timeout_to_users = FALSE
    /\ sweepPc = "sleep"
    /\ users = << >>
    /\ opOutcome = "ok"
    /\ calls = 0
    /\ expiredAtTick = {}
    /\ touched = {}
    /\ chat_id = "none"
    /\ twPc = "start"
    /\ twSd \in StateDatas
    /\ afterFirst = [u \in {} |-> 0]

\* `await user_state.set(state_data)`, the first time
FirstSet ==
    /\ twPc = "start"
    /\ users_states' = set(users_states, now, twSd).us
    /\ afterFirst' = users_states'
    /\ opOutcome' = set(users_states, now, twSd).out
    /\ calls' = calls + 1
    /\ twPc' = "once"
    /\ UNCHANGED << now, twSd >>
    /\ UNCHANGED outsideTwice

\* the same call again, no other call in between
SecondSet ==
    /\ twPc = "once"
    /\ users_states' = set(users_states, now, twSd).us
    /\ opOutcome' = set(users_states, now, twSd).out
    /\ calls' = calls + 1
    /\ twPc' = "done"
    /\ UNCHANGED << now, twSd, afterFirst >>
    /\ UNCHANGED outsideTwice

TwiceNext == FirstSet \/ SecondSet \/ ClockTick

TwiceSpec == TwiceInit /\ [][TwiceNext]_vars

\* ------------------------------------------- handlers that read and write
\* the variables such handlers do not touch
outsideRace == << message_timeout_to_users, sweepPc, users, expiredAtTick,
                  touched, chat_id, pipelineVars, retryVars, decodeVars, paramVars,
                  handleVars, twiceVars, singletonVars, checkVars >>

\* DictUserState.get_user_data; for a user without an entry it gives None,
\* for which the empty dict stands
get_user_data(us, user) ==
    IF user \in DOMAIN us THEN us[user].data ELSE EmptyMap

\* Whether handler h may go on while the others are where pcs says.  The
\* handlers are tasks of their own and the store's methods take no lock.
MayRunLocked(pcs, h) == \A g \in DOMAIN pcs \ {h} : pcs[g] # "read"

MayRun(pcs, h) == TRUE

\* the counter a handler finds under the key "a" of the user's data
Counter(us, user) ==
    IF "a" \in DOMAIN get_user_data(us, user)
    THEN get_user_data(us, user)["a"] ELSE 0

\* the user the handlers were dispatched for: the one with an entry
RaceUser == CHOOSE u \in Users : u \in DOMAIN users_states

\* handlers dispatched for a user whose entry an earlier set made
RaceInit ==
    /\ PipelineIdle
    /\ current_retries = 0
    /\ err = "none"
    /\ RetryIdle
    /\ DecodeIdle
    /\ ParamIdle
    /\ HandleIdle
    /\ TwiceIdle
    /\ SingletonIdle
    /\ CheckIdle
    /\ users_states \in TwiceStores \ { EmptyMap }
    /\ now = 0
    /\ message_timeout_to_users = FALSE
    /\ sweepPc = "sleep"
    /\ users = << >>
    /\ opOutcome = "ok"
    /\ calls = 0
    /\ expiredAtTick = {}
    /\ touched = {}
    /\ chat_id = "none"
    /\ rmwPc = [h \in 1..MaxHandlers |-> "start"]
    /\ rmwRead = [h \in 1..MaxHandlers |-> 0]

\* `data = user_state.get_user_data(user)`, followed by an await
ReadData(h) ==
    /\ rmwPc[h] = "start"
    /\ MayRun(rmwPc, h)
    /\ rmwRead' = [rmwRead EXCEPT ![h] = Counter(users_states, RaceUser)]
    /\ rmwPc' = [rmwPc EXCEPT ![h] = "read"]
    /\ calls' = calls + 1
    /\ opOutcome' = "ok"
    /\ UNCHANGED << users_states, now >>
    /\ UNCHANGED outsideRace

\* the handler is resumed: `user_state.update_user_data(user, {"a": n + 1})`
\* with n the value it read
WriteBack(h) ==
    LET r == update_user_data(users_states, now, RaceUser,
                              [k \in {"a"} |-> rmwRead[h] + 1])
    IN /\ rmwPc[h] = "read"
       /\ users_states' = r.us
       /\ opOutcome' = r.out
       /\ calls' = calls + 1
       /\ rmwPc' = [rmwPc EXCEPT ![h] = "done"]
       /\ UNCHANGED << now, rmwRead >>
       /\ UNCHANGED outsideRace

RaceNext ==
    \/ \E h \in 1..MaxHandlers : ReadData(h)
    \/ \E h \in 1..MaxHandlers : WriteBack(h)
    \/ ClockTick

RaceSpec == RaceInit /\ [][RaceNext]_vars

\* ------------------------------------------- construction of the store
\* the variables the construction of a Bot does not touch
outsideSingleton == << pipelineVars, retryVars, storeVars, decodeVars,
                       paramVars, handleVars, twiceVars, raceVars,
                       checkVars >>

\* DictUserState.__new__ with _instance = inst and n objects made so far:
\* the value of _instance afterwards, which is what is returned, and the
\* number of objects made
NewPerCall(inst, n) == [instance |-> n + 1, allocated |-> n + 1]

DictUserStateNew(inst, n) ==
    IF inst = 0 THEN [instance |-> n + 1, allocated |-> n + 1]
    ELSE [instance |-> inst, allocated |-> n]

\* Bot.__init__: `self.user_state = DictUserState(self.send_text)`, that is
\* __new__ and then __init__ on what it returned
NewBot ==
    LET r == DictUserStateNew(instance, allocated)
    IN /\ Len(user_state) < MaxBots
       /\ instance' = r.instance
       /\ allocated' = r.allocated
       /\ user_state' = Append(user_state, r.instance)
       /\ bot_send_text' = Len(user_state) + 1
       /\ UNCHANGED outsideSingleton

\* Bots are constructed, time passes, and handlers call the store through
\* any of the Bots: users_states is an attribute of the class, which no
\* method rebinds
SingletonNext ==
    \/ NewBot
    \/ \E b \in 1..Len(user_state), sd \in PlainStateDatas : Set(sd)
    \/ \E b \in 1..Len(user_state), u \in Users : DeleteUser(u)
    \/ ClockTick

SingletonSpec == Init /\ [][SingletonNext]_vars

\* ------------------------------------------------------- Event.__init__
\* the variables the construction of an Event does not touch
outsideDecode == << pipelineVars, retryVars, storeVars, paramVars,
                    handleVars, twiceVars, raceVars, singletonVars, checkVars >>

\* EventType
EventKinds ==
    { "newMessage", "editedMessage", "deletedMessage", "pinnedMessage",
      "unpinnedMessage", "newChatMembers", "leftChatMembers",
      "changedChatInfo", "callbackQuery" }

\* the keys of a payload that Event.__init__ reads; "message.chat" is the
\* key "chat" of the dict under "message"
PayloadKeys ==
    { "chat", "from", "msgId", "newMembers", "queryId", "message",
      "message.chat", "callbackData" }

\* the payloads, each taken as the set of keys it holds
Payloads ==
    { d \in SUBSET PayloadKeys : "message.chat" \in d => "message" \in d }

\* data["message"] as a payload of its own
NestedPayload(d) == IF "message.chat" \in d THEN {"chat"} ELSE {}

\* Event.__init__: what constructing Event(type_, data) ends with.  data[k]
\* raises KeyError for a missing key, data.get(k) does not.
RECURSIVE EventInit(_, _)
EventInit(type, d) ==
    IF type # "callbackQuery" /\ "chat" \notin d THEN "KeyError"
    ELSE IF type = "callbackQuery"
            /\ ("message" \notin d \/ "message.chat" \notin d)
    THEN "KeyError"
    ELSE IF type \in {"newMessage", "editedMessage", "pinnedMessage"}
    THEN "ok"
    ELSE IF type \in {"deletedMessage", "unpinnedMessage"} THEN "ok"
    ELSE IF type \in {"newChatMembers", "leftChatMembers"} THEN "ok"
    ELSE IF {"queryId", "from", "message"} \subseteq d
            /\ EventInit("newMessage", NestedPayload(d)) = "ok"
            /\ "callbackData" \in d
    THEN "ok"
    ELSE "KeyError"

\* Event(type_=..., data=...) for any kind and payload
DecodeInit ==
    /\ PipelineIdle
    /\ current_retries = 0
    /\ err = "none"
    /\ RetryIdle
    /\ StoreIdle
    /\ ParamIdle
    /\ HandleIdle
    /\ TwiceIdle
    /\ RaceIdle
    /\ SingletonIdle
    /\ CheckIdle
    /\ evType \in EventKinds
    /\ evData \in Payloads
    /\ evOutcome = "pending"

Construct ==
    /\ evOutcome = "pending"
    /\ evOutcome' = EventInit(evType, evData)
    /\ UNCHANGED << evType, evData >>
    /\ UNCHANGED outsideDecode

DecodeNext == Construct

DecodeSpec == DecodeInit /\ [][DecodeNext]_vars

\* ------------------------------------------- the parameters of a request
\* the variables the construction of a request does not touch
outsideParam == << pipelineVars, retryVars, storeVars, decodeVars,
                   handleVars, twiceVars, raceVars, singletonVars, checkVars >>

\* VKTeamsSession.bot_token
BotToken == "TOKEN"

\* names of keyword arguments of the API methods
ParamKeys == {"chatId", "text", "lastEventId"}

\* their values: None, a falsy value that is not None, another value
ParamValues == {"None", "0", "x"}

\* the **kwargs of a call: some of the keys, each with a value
KwargsSets ==
    UNION { [keys -> ParamValues] : keys \in SUBSET ParamKeys }

\* `params = {"token": self.bot_token, **kwargs}`, then every key whose
\* value is None popped
BuildParamsDropsFalsy(token, kw) ==
    LET all == Merge([k \in {"token"} |-> token], kw)
    IN [k \in { x \in DOMAIN all : all[x] \notin {"None", "0"} } |-> all[k]]

BuildParams(token, kw) ==
    LET all == Merge([k \in {"token"} |-> token], kw)
    IN [k \in { x \in DOMAIN all : all[x] # "None" } |-> all[k]]

ParamInit ==
    /\ PipelineIdle
    /\ current_retries = 0
    /\ err = "none"
    /\ RetryIdle
    /\ StoreIdle
    /\ DecodeIdle
    /\ HandleIdle
    /\ TwiceIdle
    /\ RaceIdle
    /\ SingletonIdle
    /\ CheckIdle
    /\ kwargs \in KwargsSets
    /\ params = [k \in {} |-> 0]
    /\ reqPc = "start"

\* get_request up to self._session.get(url=..., params=params)
GetRequest ==
    /\ reqPc = "start"
    /\ params' = BuildParams(BotToken, kwargs)
    /\ reqPc' = "get"
    /\ UNCHANGED kwargs
    /\ UNCHANGED outsideParam

\* post_request up to self._session.post(url=..., params=params, data=body)
PostRequest ==
    /\ reqPc = "start"
    /\ params' = BuildParams(BotToken, kwargs)
    /\ reqPc' = "post"
    /\ UNCHANGED kwargs
    /\ UNCHANGED outsideParam

ParamNext == GetRequest \/ PostRequest

ParamSpec == ParamInit /\ [][ParamNext]_vars

\* --------------------------------------------------- BaseHandler.handle
\* the variables the invocation of a handler does not touch
outsideHandle == << pipelineVars, retryVars, storeVars, decodeVars,
                    paramVars, twiceVars, raceVars, singletonVars, checkVars >>

\* what a provider can be: a value, a function, a coroutine function, an
\* async generator function
ProviderKinds ==
    {"constant", "function", "coroutinefunction", "asyncgenfunction"}

\* the annotations of a callback's parameters after event and bot
Signatures ==
    UNION { [1..n -> ProviderKinds] : n \in 0..MaxParams }

\* what a provider of the kind provides: the constant itself, the value
\* returned, the value the coroutine returns, the value yielded
Provided(kind) == [of |-> kind]

\* check_signature: the parameters whose annotation is in bot.depends
Matched(sig, deps) == { i \in 1..Len(sig) : sig[i] \in deps }

\* the next parameter of handle_kwargs.items() from i on; Len(sig) + 1 when
\* there is none
NextItem(sig, deps, i) ==
    IF \E j \in Matched(sig, deps) : j >= i
    THEN CHOOSE j \in Matched(sig, deps) :
             j >= i /\ \A k \in Matched(sig, deps) : k >= i => j <= k
    ELSE Len(sig) + 1

\* handle's for loop body: the keyword arguments after the item of the kind;
\* a provider that is none of the three kinds of function adds nothing
ObjectsAfter(objs, i, kind) ==
    IF kind \in {"asyncgenfunction", "coroutinefunction", "function"}
    THEN [x \in DOMAIN objs \cup {i} |->
             IF x = i THEN Provided(kind) ELSE objs[x]]
    ELSE objs

\* a handler whose callback declares any parameters, with any providers
\* registered, is invoked
HandleInit ==
    /\ PipelineIdle
    /\ current_retries = 0
    /\ err = "none"
    /\ RetryIdle
    /\ StoreIdle
    /\ DecodeIdle
    /\ ParamIdle
    /\ TwiceIdle
    /\ RaceIdle
    /\ SingletonIdle
    /\ CheckIdle
    /\ depends \in SUBSET ProviderKinds
    /\ signature \in Signatures
    /\ handlePc = "start"
    /\ item = 1
    /\ objects = [i \in {} |-> 0]
    /\ genState = [i \in 1..Len(signature) |-> "none"]

\* handle_kwargs = await self.check_signature(bot)
CheckSignature ==
    /\ handlePc = "start"
    /\ handlePc' = "resolve"
    /\ item' = NextItem(signature, depends, 1)
    /\ UNCHANGED << depends, signature, objects, genState >>
    /\ UNCHANGED outsideHandle

\* one pass of the for loop: `item = item_func(); await anext(item)` runs
\* the generator up to its yield, and nothing keeps or resumes it afterwards
ResolveItem ==
    /\ handlePc = "resolve"
    /\ item <= Len(signature)
    /\ objects' = ObjectsAfter(objects, item, signature[item])
    /\ genState' = IF signature[item] = "asyncgenfunction"
                   THEN [genState EXCEPT ![item] = "suspended"]
                   ELSE genState
    /\ item' = NextItem(signature, depends, item + 1)
    /\ UNCHANGED << depends, signature, handlePc >>
    /\ UNCHANGED outsideHandle

\* `await self.callback(event, bot, **objects)`: the call raises TypeError
\* when a parameter of the callback gets no argument
InvokeCallback ==
    /\ handlePc = "resolve"
    /\ item > Len(signature)
    /\ handlePc' = IF DOMAIN objects = 1..Len(signature)
                   THEN "callback" ELSE "typeError"
    /\ UNCHANGED << depends, signature, item, objects, genState >>
    /\ UNCHANGED outsideHandle

\* the callback returns, and handle with it
CallbackReturns ==
    /\ handlePc = "callback"
    /\ handlePc' = "returned"
    /\ UNCHANGED << depends, signature, item, objects, genState >>
    /\ UNCHANGED outsideHandle

\* the callback raises, and handle with it
CallbackRaises ==
    /\ handlePc = "callback"
    /\ handlePc' = "raised"
    /\ UNCHANGED << depends, signature, item, objects, genState >>
    /\ UNCHANGED outsideHandle

\* After handle is over the generator object is garbage; the event loop's
\* hook for unfinished async generators may then close it in a task of its
\* own, which runs the code after the yield.
GeneratorFinalized(i) ==
    /\ handlePc \in {"returned", "raised", "typeError"}
    /\ genState[i] = "suspended"
    /\ genState' = [genState EXCEPT ![i] = "closed"]
    /\ UNCHANGED << depends, signature, handlePc, item, objects >>
    /\ UNCHANGED outsideHandle

HandleNext ==
    \/ CheckSignature
    \/ ResolveItem
    \/ InvokeCallback
    \/ CallbackReturns
    \/ CallbackRaises
    \/ \E i \in 1..Len(signature) : GeneratorFinalized(i)

HandleSpec == HandleInit /\ [][HandleNext]_vars

\* ------------------------------------------------------------ CheckSpec
\* Dispatcher.processed_event over a table of CommandHandler and
\* MessageHandler objects, for an event that carries a text.
outsideCheck == << pipelineVars, retryVars, storeVars, decodeVars, paramVars,
                   handleVars, twiceVars, raceVars, singletonVars >>

\* texts as strings of characters; << >> also stands for a message without
\* "text" (event.data.get("text", "") is then "")
Texts ==
    { << >>, << "/", "s" >>, << "/", "h" >>, << "h", "i" >>,
      << " ", "/", "s" >> }

Commands == { << "/", "s" >>, << "/", "h" >> }

\* str.strip()
RECURSIVE Strip(_)
Strip(t) ==
    IF t = << >> THEN t
    ELSE IF Head(t) = " " THEN Strip(Tail(t))
    ELSE IF t[Len(t)] = " " THEN Strip(SubSeq(t, 1, Len(t) - 1))
    ELSE t

\* str.startswith(p)
StartsWith(t, p) == Len(t) >= Len(p) /\ SubSeq(t, 1, Len(p)) = p

\* CommandFilter.COMMAND_PREFIXES = "/", iterated character by character
COMMAND_PREFIXES == { << "/" >> }

\* what a handler's `filters` can be: None, the class CommandFilter (which
\* is what Filter.command names), or an object CommandFilter(command)
NoFilters == [kind |-> "None", command |-> << >>]

FilterCommand == [kind |-> "class", command |-> << >>]

CommandFilterObject(command) == [kind |-> "instance", command |-> command]

\* CommandFilter.filter
CommandFilterFilter(f, ev) ==
    /\ ev.type = "newMessage"
    /\ \E p \in COMMAND_PREFIXES : StartsWith(Strip(ev.text), p)
    /\ ev.text = f.command

\* the truth value of `self.filters(event)`: calling the class constructs a
\* CommandFilter, an object without __bool__ or __len__ and so true;
\* calling an object runs FilterBase.__call__, that is its filter
FiltersCall(f, ev) ==
    IF f.kind = "class" THEN TRUE ELSE CommandFilterFilter(f, ev)

\* BaseHandler.check: `bool(not self.filters or self.filters(event))`
BaseHandlerCheck(h, ev) == h.filters.kind = "None" \/ FiltersCall(h.filters, ev)

\* MessageHandler.check, inherited by CommandHandler
MessageHandlerCheck(h, ev) == BaseHandlerCheck(h, ev) /\ ev.type = "newMessage"

\* MessageHandler(callback, filters)
MessageHandlerNew(filters) ==
    [cls |-> "MessageHandler", command |-> << >>, filters |-> filters]

\* CommandHandler.__init__(command, filters, callback)
CommandHandlerNew(command, filters) ==
    [cls |-> "CommandHandler", command |-> command,
     filters |-> IF filters.kind = "None" THEN FilterCommand ELSE filters]

\* the handlers an application registers
HandlerObjects ==
    { MessageHandlerNew(NoFilters) }
        \cup { CommandHandlerNew(c, NoFilters) : c \in Commands }
        \cup { CommandHandlerNew(c, CommandFilterObject(c)) : c \in Commands }

CheckInit ==
    /\ PipelineIdle
    /\ current_retries = 0
    /\ err = "none"
    /\ RetryIdle
    /\ StoreIdle
    /\ DecodeIdle
    /\ ParamIdle
    /\ HandleIdle
    /\ TwiceIdle
    /\ RaceIdle
    /\ SingletonIdle
    /\ cmdHandlers \in UNION { [1..n -> HandlerObjects] : n \in 1..MaxRegistered }
    /\ cmdEvent \in [type : EventTypes, text : Texts]
    /\ cmdPos = 1
    /\ cmdInvoked = 0

\* `if handler.check(event):` is true: handle is awaited, then `break`
CheckTrue ==
    /\ cmdInvoked = 0
    /\ cmdPos \in 1..Len(cmdHandlers)
    /\ MessageHandlerCheck(cmdHandlers[cmdPos], cmdEvent)
    /\ cmdInvoked' = cmdPos
    /\ UNCHANGED << cmdHandlers, cmdEvent, cmdPos >>
    /\ UNCHANGED outsideCheck

\* the check is false: the for loop goes to the next handler
CheckFalse ==
    /\ cmdInvoked = 0
    /\ cmdPos \in 1..Len(cmdHandlers)
    /\ ~MessageHandlerCheck(cmdHandlers[cmdPos], cmdEvent)
    /\ cmdPos' = cmdPos + 1
    /\ UNCHANGED << cmdHandlers, cmdEvent, cmdInvoked >>
    /\ UNCHANGED outsideCheck

CheckNext == CheckTrue \/ CheckFalse

CheckSpec == CheckInit /\ [][CheckNext]_vars

TypeOK ==
    /\ last_event_id \in 0..MaxEventId
    /\ pollPc \in {"top", "await", "except"}
    /\ Len(tasks) <= MaxTasks
    /\ response \in {"none", "events"} \cup NoEventResponses
    /\ events \in {<< >>} \cup Batches
    /\ chat_id \in Users \cup {"none"}
    /\ cmdPos \in 0..MaxRegistered + 1
    /\ cmdInvoked \in 0..MaxRegistered

\* ----------------------------------------------------------------- claims
Raised(i) ==
    /\ i \in 1..Len(tasks)
    /\ tasks[i].pc \in {"mw", "handler"}
    /\ Len(tasks') = Len(tasks)
    /\ tasks'[i].pc = "failed"

\* C1: one dispatch of an event invokes the callback of at most one handler,
\* also when several handlers' predicates match the event.
C1_AtMostOneHandler == \A i \in 1..Len(tasks) : tasks[i].invoked <= 1

C1_Witness ==
    /\ Check(Handlers[1], "newMessage") /\ Check(Handlers[2], "newMessage")
    /\ \E i \in 1..Len(tasks) : tasks[i].pc = "done" /\ tasks[i].invoked = 1

C3_CursorIsLastId ==
    /\ lastRecv # 0 => last_event_id = lastRecv
    /\ pollPc = "await" => reqLastEventId = last_event_id

C3_Witness ==
    /\ pollPc = "await"
    /\ lastRecv # 0
    /\ reqLastEventId = lastRecv

\* C4, as claimed: when an event of a batch fails to decode, every other
\* decodable event of the batch is still handed to the dispatcher.
C4_Claim == (pollPc = "except" /\ err = "DecodeError") => notHanded = 0

\* C5: after an iteration of start_polling that failed (the poll raised or
\* an Event could not be built) the loop goes on: from its except clause it
\* can always step, its step leads back to the top of the loop, and from
\* there it can always step and its step issues the next poll.
C5_LoopGoesOn ==
    /\ [](pollPc \in {"except", "top"} => ENABLED PollStep)
    /\ [][/\ pollPc = "except" => pollPc' = "top" /\ err' = "none"
          /\ pollPc = "top" => pollPc' = "await" /\ reqLastEventId' = last_event_id]_vars

C5_Witness == pollPc = "except" /\ err = "ServerError" /\ current_retries = 0

\* C6: the step in which a middleware or handler raises changes nothing but
\* the raising task: the poll loop stays in its awaited poll and every other
\* dispatch task is left as it was.
C6_FailureIsolated ==
    [][\A i \in 1..Len(tasks) :
         Raised(i) =>
           /\ pollPc' = "await"
           /\ UNCHANGED pollVars
           /\ \A j \in 1..Len(tasks) : j # i => tasks'[j] = tasks[j]]_vars

C6_Witness ==
    /\ pollPc = "await"
    /\ \E i, j \in 1..Len(tasks) :
          /\ tasks[i].pc = "failed"
          /\ tasks[i].exc = "HandlerError"
          /\ tasks[j].pc = "handler"

\* C7, as claimed: an exception raised by a handler reaches the except
\* clause of start_polling.
C7_Claim ==
    (\E i \in 1..Len(tasks) : tasks[i].pc = "failed" /\ tasks[i].exc = "HandlerError")
        ~> (pollPc = "except" /\ err = "HandlerError")

\* C8: start_polling goes on to its next poll whatever the dispatch tasks
\* are doing: with tasks unfinished it can issue the next poll, and once the
\* tasks it created have started it can take the poll's answer.
C8_PollNeverWaits ==
    /\ pollPc = "top" => ENABLED CallGetEvents
    /\ (pollPc = "await" /\ NoneNew) => ENABLED RespondNoEvents

C8_Witness ==
    \E i, j \in 1..Len(tasks) :
        /\ tasks[i].pc = "handler" /\ tasks[i].old
        /\ tasks[j].pc = "handler" /\ ~tasks[j].old

\* C9, as claimed: if every answer holds only events with an eventId greater
\* than the lastEventId sent, no event is dispatched twice.
C9_Original == srvGreater => ~redelivered

\* C9, amended: if every answer holds only events with an eventId greater
\* than the lastEventId sent and lists them in strictly ascending order of
\* eventId, no event is dispatched twice.
C9_Amended == srvAscending => ~redelivered

C9_Witness ==
    /\ srvAscending
    /\ Cardinality(dispatched) >= 2
    /\ \E i \in 1..Len(tasks) : tasks[i].pc = "failed"

\* C10: when a dispatch task of a batch is created, and when it starts, the
\* cursor already is the batch's last eventId.
C10_CursorAdvancedFirst == \A i \in 1..Len(tasks) : tasks[i].adv

C10_Witness ==
    \E i \in 1..Len(tasks) :
        tasks[i].pc = "mw" /\ tasks[i].adv /\ last_event_id = lastRecv

\* how far processed_event got in task t
Progress(t) == << t.pc, t.mwi, t.h, t.invoked >>

\* task i is the same task before and after the step and got further
Advanced(i) ==
    /\ Len(tasks') = Len(tasks)
    /\ Progress(tasks'[i]) # Progress(tasks[i])

\* C11: a step of a dispatch task that is in its middleware chain either
\* ends the dispatch with the middleware's exception, no handler invoked, or
\* enters the next middleware of the list, or, from the last middleware only,
\* goes on to the handler scan; the chain is entered at its first middleware,
\* and a dispatch that failed takes no further step.
C11_MiddlewareChain ==
    [][\A i \in 1..Len(tasks) :
         Advanced(i) =>
           LET t == tasks[i]
               t2 == tasks'[i]
           IN /\ t.pc = "new" =>
                    t2.pc = "mw" /\ t2.mwi = 1 /\ t2.invoked = 0
              /\ t.pc = "mw" =>
                    \/ /\ t2.pc = "failed"
                       /\ t2.exc = "MiddlewareError"
                       /\ t2.invoked = 0
                    \/ /\ t2.pc = "mw"
                       /\ t2.mwi = t.mwi + 1
                       /\ t2.mwi <= Len(Middlewares)
                       /\ t2.invoked = 0
                    \/ /\ t.mwi = Len(Middlewares)
                       /\ t2.pc \in {"handler", "done"}
                       /\ t2.exc = "none"
              /\ t.pc # "failed"]_vars

C11_Witness ==
    \E i, j \in 1..Len(tasks) :
        /\ tasks[i].pc = "failed"
        /\ tasks[i].exc = "MiddlewareError"
        /\ tasks[i].invoked = 0
        /\ tasks[j].pc = "handler"
        /\ tasks[j].invoked = 1

\* C12: the handler a dispatch invokes is the first of the table whose check
\* is true for the event; a dispatch that invokes none found no check true;
\* and once the invoked handler returned or raised the dispatch is over, no
\* later handler is looked at.
C12_EarliestHandler ==
    /\ [](\A i \in 1..Len(tasks) :
            tasks[i].pc = "handler" =>
              /\ Check(Handlers[tasks[i].h], tasks[i].type)
              /\ \A g \in 1..tasks[i].h - 1 :
                    ~Check(Handlers[g], tasks[i].type))
    /\ [][\A i \in 1..Len(tasks) :
            Advanced(i) =>
              /\ (tasks[i].pc = "mw" /\ tasks'[i].pc = "done") =>
                    \A g \in 1..Len(Handlers) :
                        ~Check(Handlers[g], tasks[i].type)
              /\ tasks[i].pc = "handler" =>
                    /\ tasks'[i].pc \in {"done", "failed"}
                    /\ tasks'[i].invoked = tasks[i].invoked]_vars

C12_Witness ==
    \E i \in 1..Len(tasks) :
        /\ tasks[i].pc = "handler"
        /\ tasks[i].h = 1
        /\ \E g \in 2..Len(Handlers) : Check(Handlers[g], tasks[i].type)

\* C13: while every attempt of a call with an attempt count N >= 1 met a
\* server error, the call is still trying as long as it made fewer than N
\* attempts, and with the N-th it has raised the server error; it never
\* makes more than N attempts.
C13_RetryExhaustion ==
    (/\ established_retries >= 1
     /\ Len(attemptLog) >= 1
     /\ \A k \in 1..Len(attemptLog) : IsServerError(attemptLog[k]))
        => /\ Len(attemptLog) <= established_retries
           /\ Len(attemptLog) < established_retries =>
                 /\ wrapPc \in {"call", "sleep"}
                 /\ err = "none"
           /\ Len(attemptLog) = established_retries =>
                 /\ wrapPc = "raised"
                 /\ err = "ServerError"
                 /\ result = "none"

C13_Witness ==
    /\ established_retries = 3
    /\ Len(attemptLog) = 3
    /\ \A k \in 1..3 : IsServerError(attemptLog[k])
    /\ wrapPc = "raised"

\* C14: an attempt that fails with anything but a server error is the
\* call's last attempt: the wrapper has raised that error to the caller;
\* met at the first attempt, the call made exactly one attempt.
C14_NoRetryOfOtherErrors ==
    \A k \in 1..Len(attemptLog) :
        (~AttemptSucceeds(attemptLog[k]) /\ attemptLog[k].status < 500)
            => /\ k = Len(attemptLog)
               /\ wrapPc = "raised"
               /\ err = RaisedBy(attemptLog[k])
               /\ err # "ServerError"
               /\ result = "none"

C14_Witness ==
    /\ established_retries = 3
    /\ Len(attemptLog) = 1
    /\ attemptLog[1].kind = "http"
    /\ attemptLog[1].status = 404
    /\ wrapPc = "raised"
    /\ err = "ClientError"

\* a step of the sweep: a tick begins, or goes on after a notification, or
\* ends with the notification's exception
SweepStep == SweepWake \/ SendReturns \/ SendRaises

\* the users whose entry was expired when the tick of this sweep step began
\* and for whom no store call was made during the tick
ExpiredAtThisTick ==
    IF sweepPc = "sleep" THEN Expired(users_states, now)
    ELSE expiredAtTick \ touched

\* C15, as claimed: when a sweep tick is over, no entry that was expired
\* when the tick began is in the store, whatever message_timeout_to_users
\* is; and no step of the sweep removes or changes an entry whose
\* expire_session lies in the future.
C15_Claim ==
    [][SweepStep =>
         /\ sweepPc' \in {"sleep", "crashed"} =>
               \A u \in ExpiredAtThisTick : u \notin DOMAIN users_states'
         /\ \A u \in DOMAIN users_states :
               users_states[u].expire_session > now =>
                 /\ u \in DOMAIN users_states'
                 /\ users_states'[u] = users_states[u]]_vars

\* C16, as claimed: the sweep runs forever: session_timeout_handler is
\* never left, whatever happens during a tick.
C16_Claim == sweepPc # "crashed"

\* an update_* call for user u
UpdateFor(u) ==
    \/ \E st \in StateNames : UpdateUserState(u, st)
    \/ \E d \in Mappings : UpdateUserData(u, d)
    \/ \E a \in Mappings : UpdateUserAdditional(u, a)

\* any store call for user u
CallFor(u) ==
    \/ \E sd \in StateDatas : sd.user = u /\ Set(sd)
    \/ DeleteUser(u)
    \/ UpdateFor(u)
    \/ SetNewExpireSession(u)
    \/ GetUserData(u)
    \/ GetUserAdditional(u)

\* C17, as claimed: an update_* call for a user who has an entry leaves that
\* user's expire_session at now + 15.
C17_Claim ==
    [][\A u \in DOMAIN users_states :
         UpdateFor(u) =>
           /\ u \in DOMAIN users_states'
           /\ users_states'[u].expire_session = now + UpdateExpireSession]_vars

\* C18, as claimed: a store call for user u leaves the entry of every other
\* user, the user "user" included, as it was.
C18_Claim ==
    [][\A u \in Users :
         CallFor(u) =>
           \A x \in Users \ {u} :
               /\ (x \in DOMAIN users_states') = (x \in DOMAIN users_states)
               /\ x \in DOMAIN users_states =>
                     users_states'[x] = users_states[x]]_vars

\* C19, as claimed: update_user_additional(u, partial) for a user who has
\* an entry leaves u's additional as the old mapping with the keys of
\* partial added or overwritten.
C19_Claim ==
    [][\A u \in DOMAIN users_states, a \in Mappings :
         UpdateUserAdditional(u, a) =>
           /\ u \in DOMAIN users_states'
           /\ users_states'[u].additional =
                  Merge(users_states[u].additional, a)]_vars

\* C20: an update_* call for a user who has no entry does not raise and
\* leaves the store as it was, without an entry for that user.
C20_UpdateWithoutEntry ==
    [][\A u \in Users \ DOMAIN users_states :
         UpdateFor(u) =>
           /\ users_states' = users_states
           /\ u \notin DOMAIN users_states'
           /\ opOutcome' # "raised"]_vars

C20_Witness ==
    /\ calls = 1
    /\ users_states = [u \in {} |-> 0]
    /\ opOutcome = "logged"

\* `new` is the mapping `old` with each key of `given` added or overwritten
\* and every other key as it was
Overlaid(old, given, new) ==
    /\ DOMAIN new = DOMAIN old \cup DOMAIN given
    /\ \A k \in DOMAIN given : new[k] = given[k]
    /\ \A k \in DOMAIN old \ DOMAIN given : new[k] = old[k]

\* C21: set(state_data), called in any state the store can be in, leaves
\* an entry for the user, whether or not there was one; its state is the
\* given state (None when none is given), its expire_session is
\* now + expire_session, and data and additional are the stored mappings
\* with each given key added or overwritten and every other key unchanged.
C21_SetSemantics ==
    \A sd \in StateDatas :
        LET u == sd.user
            had == u \in DOMAIN users_states
            oldData == IF had THEN users_states[u].data ELSE EmptyMap
            oldAdditional ==
                IF had THEN users_states[u].additional ELSE EmptyMap
            after == set(users_states, now, sd).us
        IN /\ u \in DOMAIN after
           /\ after[u].state = sd.state
           /\ after[u].expire_session = now + sd.expire_session
           /\ Overlaid(oldData, sd.data, after[u].data)
           /\ Overlaid(oldAdditional, sd.additional, after[u].additional)

\* an entry written by set at this time, without a state, whose data holds
\* a key overwritten (a = 2 is given after a = 1 only) beside a key kept
C21_Witness ==
    \E u \in DOMAIN users_states :
        /\ calls = 3
        /\ users_states[u].state = "None"
        /\ users_states[u].expire_session = now + 30
        /\ DOMAIN users_states[u].data = {"a", "b"}
        /\ users_states[u].data["a"] = 2
        /\ users_states[u].data["b"] = 1

\* C29: a response without the key "events" ends the request without an
\* exception in start_polling: the loop is back at its top, no dispatch
\* task was created or changed, the cursor is as it was, and the next
\* get_events can be called.
C29_MissingEventsKey ==
    /\ [](response = "noEventsKey" => ENABLED CallGetEvents)
    /\ [][response' = "noEventsKey" /\ response # "noEventsKey" =>
            /\ pollPc' = "top"
            /\ err' = "none"
            /\ tasks' = tasks
            /\ last_event_id' = last_event_id]_vars

\* the response without "events" came after a batch had moved the cursor,
\* while a task of that batch was under way
C29_Witness ==
    /\ response = "noEventsKey"
    /\ pollPc = "top"
    /\ last_event_id > 0
    /\ \E i \in 1..Len(tasks) : tasks[i].pc = "handler"

\* C30: the cursor changes only in the step that takes a non-empty events
\* list from a response, and becomes the eventId of its last element; every
\* other step (a response without events, a failed request, the except
\* clause, every step of a dispatch task) leaves it as it was.
C30_CursorFrame ==
    [][last_event_id' # last_event_id =>
         /\ pollPc = "await"
         /\ response' = "events"
         /\ last_event_id' = lastRecv']_vars

\* an empty events list answered the poll after the cursor had moved, and
\* the cursor is where the last batch left it
C30_Witness ==
    /\ response = "emptyList"
    /\ pollPc = "top"
    /\ last_event_id > 0
    /\ last_event_id = lastRecv

\* the keys a payload of the kind holds at least: chat (under message for
\* a callbackQuery), the message id of the message kinds, the member list of
\* the membership kinds, and queryId, from, message and callbackData for a
\* callbackQuery only
RequiredKeys(type) ==
    IF type = "callbackQuery"
    THEN {"queryId", "from", "message", "message.chat", "callbackData"}
    ELSE IF type \in {"newChatMembers", "leftChatMembers"}
    THEN {"chat", "newMembers"}
    ELSE IF type = "changedChatInfo" THEN {"chat"}
    ELSE {"chat", "msgId"}

\* C25, as claimed: for each of the nine kinds, constructing an Event from
\* a payload that holds the keys required for the kind does not raise;
\* queryId, from, message and callbackData are required of a callbackQuery
\* only.
C25_Claim ==
    evOutcome # "pending" /\ RequiredKeys(evType) \subseteq evData =>
        evOutcome = "ok"

\* C26: the params of a request made by get_request or post_request hold
\* no keyword argument whose value is None, and hold the token and every
\* keyword argument with another value, each with its value, and nothing
\* else.
C26_ParameterOmission ==
    reqPc # "start" =>
        /\ "token" \in DOMAIN params
        /\ params["token"] = BotToken
        /\ DOMAIN params \subseteq {"token"} \cup DOMAIN kwargs
        /\ \A k \in DOMAIN kwargs :
              IF kwargs[k] = "None" THEN k \notin DOMAIN params
              ELSE k \in DOMAIN params /\ params[k] = kwargs[k]

\* a POST whose keyword arguments held a None, a falsy value and another
\* value: the first is left out, the other two are sent
C26_Witness ==
    /\ reqPc = "post"
    /\ DOMAIN kwargs = ParamKeys
    /\ kwargs["text"] = "None"
    /\ kwargs["lastEventId"] = "0"
    /\ kwargs["chatId"] = "x"
    /\ DOMAIN params = {"token", "chatId", "lastEventId"}

\* the parameters a scoped-resource provider is resolved for
Scoped ==
    { i \in Matched(signature, depends) : signature[i] = "asyncgenfunction" }

\* C23, as claimed: for every parameter with a scoped-resource provider, the
\* provider's setup has run when the callback is running, and its teardown
\* has run when handle is over, whether the callback returned or raised.
C23_Claim ==
    \A i \in Scoped :
        /\ handlePc = "callback" => genState[i] = "suspended"
        /\ handlePc \in {"returned", "raised"} => genState[i] = "closed"

\* C24, as claimed: once handle has called the callback, every parameter
\* that matches a registered provider has been given an argument, and the
\* argument is what the provider provides, for each of the four kinds.
C24_Claim ==
    handlePc \in {"callback", "returned", "raised", "typeError"} =>
        \A i \in Matched(signature, depends) :
            /\ i \in DOMAIN objects
            /\ objects[i] = Provided(signature[i])

\* C22: after set was called twice in a row with the same StateData, every
\* user's state, data and additional are what they were after the first
\* call; expire_session alone may differ.
C22_SetIdempotent ==
    twPc = "done" =>
        /\ DOMAIN users_states = DOMAIN afterFirst
        /\ \A u \in DOMAIN users_states :
              /\ users_states[u].state = afterFirst[u].state
              /\ users_states[u].data = afterFirst[u].data
              /\ users_states[u].additional = afterFirst[u].additional

\* the second call came later than the first and moved expire_session, on
\* an entry whose data holds a key given by both calls beside an older one
C22_Witness ==
    /\ twPc = "done"
    /\ twSd.data = [k \in {"a"} |-> 2]
    /\ users_states[twSd.user].data = Merge([k \in {"b"} |-> 1], twSd.data)
    /\ users_states[twSd.user].expire_session
           > afterFirst[twSd.user].expire_session

\* the smallest value a handler read: the counter before the first write
FirstRead == CHOOSE n \in { rmwRead[h] : h \in DOMAIN rmwRead } :
                 \A h \in DOMAIN rmwRead : n <= rmwRead[h]

\* all handlers are done and two of them wrote back from the same value
LostUpdate ==
    /\ \A h \in DOMAIN rmwPc : rmwPc[h] = "done"
    /\ \E g, h \in DOMAIN rmwPc : g # h /\ rmwRead[g] = rmwRead[h]

\* C27: nothing holds a handler back while another one is between its read
\* and its write of the same user's data: its read and its write can be
\* made at once; and when two handlers wrote back values derived from the
\* same read, the stored counter shows fewer increments than there were
\* handlers: an update is lost.
C27_NoTransaction ==
    /\ \A h \in DOMAIN rmwPc :
          /\ rmwPc[h] = "start" => ENABLED ReadData(h)
          /\ rmwPc[h] = "read" => ENABLED WriteBack(h)
    /\ LostUpdate =>
          Counter(users_states, RaceUser) < FirstRead + Len(rmwPc)

\* two handlers for the same user read 1, and after both wrote the counter
\* is 2
C27_Witness ==
    /\ LostUpdate
    /\ rmwRead[1] = 1
    /\ rmwRead[2] = 1
    /\ Counter(users_states, RaceUser) = 2

\* C28: however many Bots are constructed, object.__new__ made at most one
\* DictUserState, and the user_state of every Bot is that one object, the
\* one the class holds in _instance.
C28_OneStore ==
    /\ allocated <= 1
    /\ \A b \in 1..Len(user_state) : user_state[b] = instance
    /\ \A b, c \in 1..Len(user_state) : user_state[b] = user_state[c]

\* three Bots were constructed and the store was written through one of
\* them
C28_Witness ==
    /\ Len(user_state) = 3
    /\ allocated = 1
    /\ calls > 0
    /\ DOMAIN users_states # {}
\* ---------------------------------------------------------------- C31
\* the tasks that have not run yet come after all those that have
StartedInOrder ==
    \A i, j \in 1..Len(tasks) :
        i < j /\ tasks[j].pc # "new" => tasks[i].pc # "new"

\* C31: within one poll batch the dispatch tasks are created in the order of
\* the server's events list (the k-th task appended by the step that takes
\* the list is for the k-th event the for loop took from it and has not
\* run), and they are started in that order (a task never runs while one
\* created before it has not).
C31_BatchOrder ==
    /\ []StartedInOrder
    /\ [][response' = "events" /\ response # "events" =>
            /\ Len(tasks') - Len(tasks) = Len(events')
            /\ \A k \in 1..Len(tasks') - Len(tasks) :
                 /\ tasks'[Len(tasks) + k].type = events'[k].type
                 /\ tasks'[Len(tasks) + k].pc = "new"]_vars

\* a list of two events of different types was taken whole: two tasks, in
\* the order of the list, neither of which has run
C31_Witness ==
    /\ Len(events) = 2
    /\ events[1].type # events[2].type
    /\ Len(tasks) = 2
    /\ tasks[1].type = events[1].type
    /\ tasks[2].type = events[2].type
    /\ tasks[1].pc = "new"
    /\ tasks[2].pc = "new"

\* ---------------------------------------------------------------- C32
\* C32: when a call's attempts were k server errors, k less than the attempt
\* count, the wrapper goes on to attempt k + 1; an attempt that succeeds is
\* the call's last one, all attempts before it were server errors and fewer
\* than the attempt count, and the wrapper has returned its response and
\* raised nothing.
C32_SuccessAfterErrors ==
    /\ (/\ wrapPc # "idle"
        /\ \A j \in 1..Len(attemptLog) : IsServerError(attemptLog[j])
        /\ Len(attemptLog) < established_retries)
          => wrapPc \in {"call", "sleep"}
    /\ \A k \in 1..Len(attemptLog) :
          AttemptSucceeds(attemptLog[k])
            => /\ k = Len(attemptLog)
               /\ k <= established_retries
               /\ \A j \in 1..k - 1 : IsServerError(attemptLog[j])
               /\ wrapPc = "returned"
               /\ result = "response"
               /\ err = "none"

\* two server errors, then the third of three attempts succeeded
C32_Witness ==
    /\ established_retries = 3
    /\ Len(attemptLog) = 3
    /\ IsServerError(attemptLog[1])
    /\ IsServerError(attemptLog[2])
    /\ AttemptSucceeds(attemptLog[3])
    /\ result = "response"

\* ---------------------------------------------------------------- C39
\* C39: a call with an attempt count of 0 or less makes no attempt and
\* returns None without raising; when the caller is get_events, it takes that
\* None as a falsy response, the one it returns None for, and the cursor is
\* as it was.
C39_NoAttempts ==
    /\ [](wrapPc # "idle" /\ established_retries <= 0
            => /\ wrapPc = "returned"
               /\ result = "None"
               /\ attemptLog = << >>
               /\ err = "none")
    /\ [][result = "None" /\ response' # "none"
            => /\ response' = "falsy"
               /\ last_event_id' = last_event_id
               /\ err' = "none"]_vars

\* get_events took the None of a call with a count of -1 after an earlier
\* call had moved the cursor
C39_Witness ==
    /\ wrapPc = "returned"
    /\ established_retries = -1
    /\ result = "None"
    /\ last_event_id > 0
    /\ ENABLED GetEventsResumes

\* ---------------------------------------------------------------- C33
\* C33: an entry leaves the store only by delete_user called for its user or
\* by a step of the sweep that finds it expired.  Whatever the store holds,
\* no call of set, update_*, set_new_expire_session or get_user_additional
\* takes a key away, delete_user takes away its user's key only, and
\* delete_user for a user without an entry changes nothing and does not
\* raise.
C33_WaysOut ==
    /\ [](\A u \in Users :
            /\ \A sd \in StateDatas :
                 DOMAIN users_states \subseteq
                     DOMAIN set(users_states, now, sd).us
            /\ \A st \in StateNames :
                 DOMAIN users_states \subseteq
                     DOMAIN update_user_state(users_states, now, u, st).us
            /\ \A d \in Mappings :
                 /\ DOMAIN users_states \subseteq
                       DOMAIN update_user_data(users_states, now, u, d).us
                 /\ DOMAIN users_states \subseteq
                       DOMAIN update_user_additional(users_states, now, u,
                                                     d).us
            /\ DOMAIN users_states \subseteq
                 DOMAIN set_new_expire_session(users_states, now, u,
                                               UpdateExpireSession).us
            /\ get_user_additional(users_states, u).us = users_states
            /\ DOMAIN delete_user(users_states, u).us
                 = DOMAIN users_states \ {u}
            /\ u \notin DOMAIN users_states =>
                 delete_user(users_states, u)
                     = [us |-> users_states, out |-> "ok"])
    /\ [][\A u \in DOMAIN users_states \ DOMAIN users_states' :
            \/ DeleteUser(u)
            \/ SweepStep /\ now > users_states[u].expire_session]_vars

\* the sweep removed the expired entry of u1 and is sending; the entry of
\* "user" is still there
C33_Witness ==
    /\ sweepPc = "send"
    /\ chat_id = "u1"
    /\ "u1" \notin DOMAIN users_states
    /\ "user" \in DOMAIN users_states

\* ---------------------------------------------------------------- C34
\* C34: the expiry notifications are the sweep's deletions under the flag.
\* With the flag set, a sweep step that removes an entry removes that one
\* only and ends in the bot_send_text call for its user, the entry already
\* gone; with the flag unset no call is made.  A call is begun only by such
\* a step, for a user whose entry was expired, and a store call (delete_user
\* among them) begins none.
C34_Notifications ==
    /\ []((sweepPc = "send") <=> (chat_id # "none"))
    /\ [](~message_timeout_to_users => chat_id = "none")
    /\ [][/\ \A u \in DOMAIN users_states \ DOMAIN users_states' :
               SweepStep =>
                 IF message_timeout_to_users
                 THEN /\ sweepPc' = "send"
                      /\ chat_id' = u
                 ELSE sweepPc' # "send"
          /\ SweepStep /\ sweepPc' = "send" =>
               /\ chat_id' \in DOMAIN users_states
               /\ now > users_states[chat_id'].expire_session
               /\ DOMAIN users_states' = DOMAIN users_states \ {chat_id'}
          /\ ~SweepStep => chat_id' = chat_id /\ sweepPc' = sweepPc]_vars

\* the second notification of one tick: the call for u1 returned, and the
\* sweep removed the entry of "user" and is in the call for it
C34_Witness ==
    /\ sweepPc = "send"
    /\ chat_id = "user"
    /\ users_states = EmptyMap
    /\ expiredAtTick = {"u1", "user"}

\* ---------------------------------------------------------------- C35
\* C35, as claimed: get_user_data and get_user_additional called for any
\* user on any store do not raise and leave the store as it is; for a user
\* with an entry they return that user's data and additional, for a user
\* without one None.
C35_Claim ==
    \A u \in Users :
        /\ u \in DOMAIN users_states =>
             get_user_data(users_states, u) = users_states[u].data
        /\ get_user_additional(users_states, u).out = "ok"
        /\ get_user_additional(users_states, u).us = users_states
        /\ get_user_additional(users_states, u).val =
             IF u \in DOMAIN users_states
             THEN {users_states[u].additional} ELSE {}

\* ---------------------------------------------------------------- C36
\* C36, as claimed: when bot_send_text has returned, the sweep goes on over
\* the rest of its snapshot of the keys without raising, also when a
\* handler deleted one of those entries while the call was under way; it
\* ends awaiting the next tick or the next notification.
C36_Claim == [][SendReturns => sweepPc' \in {"sleep", "send"}]_vars

\* ---------------------------------------------------------------- C37
\* C37: in every state the sweep or a handler can find the store in, every
\* entry has the four fields expire_session, state, data and additional, and
\* its expire_session is a time: the None that set writes when it creates
\* an entry is gone before set's step is over.
C37_EntriesComplete ==
    \A u \in DOMAIN users_states :
        /\ DOMAIN users_states[u]
             = {"expire_session", "state", "data", "additional"}
        /\ users_states[u].expire_session # NullExpiry
        /\ users_states[u].expire_session \in Nat

\* set created the entry of u1 anew while the sweep, having removed the
\* expired one, was in the notification call for u1
C37_Witness ==
    /\ sweepPc = "send"
    /\ chat_id = "u1"
    /\ "u1" \in DOMAIN users_states
    /\ calls = 2

\* ---------------------------------------------------------------- C38
\* C38: only the sweep enforces expiry.  An entry whose expire_session is
\* past is still read by get_user_data, and no step but one of the sweep (or
\* a delete_user for its user) removes it; a set for its user moves
\* expire_session past the present time and keeps the stored data and
\* additional keys it does not give anew, so a tick that begins or goes on
\* after the set leaves the entry in the store.
C38_ExpiryBySweepOnly ==
    /\ [](\A u \in Expired(users_states, now) :
            get_user_data(users_states, u) = users_states[u].data)
    /\ [][\A u \in Expired(users_states, now) :
            /\ u \notin DOMAIN users_states' => SweepStep \/ DeleteUser(u)
            /\ \A sd \in SweepStateDatas :
                 sd.user = u /\ Set(sd) =>
                   /\ users_states'[u].expire_session > now
                   /\ Overlaid(users_states[u].data, sd.data,
                               users_states'[u].data)
                   /\ Overlaid(users_states[u].additional, sd.additional,
                               users_states'[u].additional)
                   /\ \A list \in KeyLists(DOMAIN users_states') \cup {users} :
                        u \in DOMAIN SweepFrom(users_states', list, now,
                                               message_timeout_to_users).us
         ]_vars

\* at 45 s the entry of u1, set again, holds its datum and expires at 75 s,
\* and the tick has removed the expired entry of "user" and left it
C38_Witness ==
    /\ now = 45
    /\ sweepPc = "send"
    /\ chat_id = "user"
    /\ "u1" \in DOMAIN users_states
    /\ users_states["u1"].expire_session = 75
    /\ users_states["u1"].data = [k \in {"a"} |-> 1]
    /\ calls = 3

\* ---------------------------------------------------------------- C40
\* C40, as claimed: a CommandHandler made with a command and no filters is
\* invoked only for a newMessage event whose text, stripped, starts with
\* the command prefix.
C40_Claim ==
    (/\ cmdInvoked # 0
     /\ cmdHandlers[cmdInvoked].cls = "CommandHandler"
     /\ cmdHandlers[cmdInvoked].filters = FilterCommand)
        => /\ cmdEvent.type = "newMessage"
           /\ \E p \in COMMAND_PREFIXES : StartsWith(Strip(cmdEvent.text), p)

====
